---- MODULE Spec2Model ----
(***************************************************************************)
(* A model of image_encryptor.py: the LCG keystream generator               *)
(* (derive_keystream), the byte combiner (xor_bytes), the block loop of     *)
(* run_job with its progress_bar generator, and run_job itself with the     *)
(* jobs that from_args and interactive_flow build, over a small file system.*)
(*                                                                          *)
(* Three specifications share the module:                                   *)
(*   SpecKS    calls of derive_keystream, one loop iteration per step;      *)
(*   SpecPipe  the block loop of run_job (lines 199-206) driven by          *)
(*             progress_bar, applied once and then again to its own output; *)
(*   SpecJob   from_args / interactive_flow building a Job and run_job      *)
(*             validating, decoding, transforming, creating the directory   *)
(*             and encoding.                                                *)
(*                                                                          *)
(* 32-bit values do not fit TLC's integers once multiplied, so a 32-bit     *)
(* word is a record [hi, lo] of two 16-bit limbs (value hi * 2^16 + lo) and *)
(* a key, an unbounded Python int, is [top, hi, lo] with value              *)
(* top * 2^32 + hi * 2^16 + lo.                                             *)
(***************************************************************************)
EXTENDS Integers, Sequences, FiniteSets, TLC

\* ------------------------------------------------------------------ bounds

\* Longest keystream a modelled call of derive_keystream asks for.
KsMaxLen == 2
\* The block size SpecJob runs run_job with, standing for BLOCK: the files
\* of SpecJob hold three pixel bytes.
JobBlock == 2
\* Calls of derive_keystream in one behaviour.
KsMaxCalls == 3
\* Longest pixel buffer the block loop is run over in SpecPipe.
PipeMaxLen == 5
\* Largest block size of SpecPipe (the code's is BLOCK; the loop is checked
\* for every block size from 1 up to this one).
PipeMaxBlock == 3

\* ------------------------------------------------------- 32-bit arithmetic

Limb == 2^16

Word(hi, lo) == [hi |-> hi, lo |-> lo]

MkKey(top, hi, lo) == [top |-> top, hi |-> hi, lo |-> lo]

\* key & 0xFFFFFFFF (line 113): the bits above 2^32 are dropped.
Mask32(key) == Word(key.hi, key.lo)

\* a, c of the LCG (lines 110-111); m = 2**32 is the two-limb width.
LcgA == 1664525
LcgC == 1013904223

\* 0xA5A5A5A5 (line 113): both limbs are 0xA5A5.
FallbackSeed == Word(42405, 42405)

\* The seed without the fallback for a zero key.
SeedNoFallback(key) == Mask32(key)

\* state = (key & 0xFFFFFFFF) or 0xA5A5A5A5 (line 113).
Seed(key) ==
    IF Mask32(key) = Word(0, 0) THEN FallbackSeed ELSE Mask32(key)

\* state = (a * state + c) % m (line 116), limb by limb. The partial product
\* aHi * hi lies wholly above 2^32 and the carry out of the high limb is
\* dropped: that is the % m.
LcgNext(st) ==
    LET aLo == LcgA % Limb
        aHi == LcgA \div Limb
        low == aLo * st.lo + (LcgC % Limb)
        high == aLo * st.hi + aHi * st.lo + (LcgC \div Limb) + (low \div Limb)
    IN  Word(high % Limb, low % Limb)

\* (state >> 16) & 0xFF (line 117): the low byte of the high limb.
OutByte(st) == st.hi % 256

\* bytearray(length) (line 114): `length` zero bytes.
ZeroBytes(length) == [j \in 1..length |-> 0]

\* derive_keystream as a function of (key, length): the loop of lines
\* 115-117 unrolled, the state local to the call.
RECURSIVE KsLoop(_, _, _, _)
KsLoop(st, buf, j, length) ==
    IF j >= length THEN buf
    ELSE LET nxt == LcgNext(st)
         IN  KsLoop(nxt, [buf EXCEPT ![j + 1] = OutByte(nxt)], j + 1, length)

derive_keystream(key, length) == KsLoop(Seed(key), ZeroBytes(length), 0, length)

\* ------------------------------------------------------------- xor_bytes

Min(a, b) == IF a <= b THEN a ELSE b
Max(a, b) == IF a >= b THEN a ELSE b

Bit(x, t) == (x \div 2^t) % 2

\* d | k: what a slip of the operator would compute.
BitOr(d, k) ==
    LET b(t) == IF Bit(d, t) + Bit(k, t) > 0 THEN 2^t ELSE 0
    IN  b(0) + b(1) + b(2) + b(3) + b(4) + b(5) + b(6) + b(7)

\* d ^ k on two bytes (line 124).
BitXor(d, k) ==
    LET b(t) == ((Bit(d, t) + Bit(k, t)) % 2) * 2^t
    IN  b(0) + b(1) + b(2) + b(3) + b(4) + b(5) + b(6) + b(7)

\* zip(data, ks) stops at the shorter of the two (line 124).
xor_bytes(data, k) ==
    LET ks == derive_keystream(k, Len(data))
    IN  [j \in 1..Min(Len(data), Len(ks)) |-> BitXor(data[j], ks[j])]

\* ------------------------------------------------------- Python's slices

\* seq[s:e] for 0 <= s, e: both ends are clamped to len(seq).
Slice(seq, s, e) ==
    LET s1 == Min(s, Len(seq))
        e1 == Min(e, Len(seq))
    IN  IF e1 <= s1 THEN <<>> ELSE SubSeq(seq, s1 + 1, e1)

\* seq[s:e] = new on a bytearray: the clamped range is replaced by `new`,
\* whatever its length.
SliceAssign(seq, s, e, new) ==
    LET s1 == Min(s, Len(seq))
        e1 == Max(s1, Min(e, Len(seq)))
    IN  SubSeq(seq, 1, s1) \o new \o SubSeq(seq, e1 + 1, Len(seq))

\* block = 32_768 (line 199).
BLOCK == 32768

\* The block count rounded down: a last, shorter block is lost.
TotalBlocksFloor(n, blk) == n \div blk

\* total_blocks = (len(raw) + block - 1) // block (line 201).
TotalBlocks(n, blk) == (n + blk - 1) \div blk

\* s = start * block; e = min(s + block, len(raw)) (lines 204-205).
BlockStart(start, blk) == start * blk

BlockEnd(start, blk, n) == Min(BlockStart(start, blk) + blk, n)

\* ------------------------------------------------------- paths and files

\* A path is [dir, stem, suffix]: dir a sequence of directory names below the
\* working directory, stem a sequence of name parts, suffix a sequence of
\* characters starting with the dot.
Path(dir, stem, suffix) == [dir |-> dir, stem |-> stem, suffix |-> suffix]

NoPath == Path(<<>>, <<>>, <<>>)

\* str.lower() over the letters the modelled suffixes use.
LowerChar(c) ==
    CASE c = "P" -> "p"
      [] c = "N" -> "n"
      [] c = "G" -> "g"
      [] c = "J" -> "j"
      [] c = "E" -> "e"
      [] c = "I" -> "i"
      [] c = "F" -> "f"
      [] OTHER -> c

Lower(s) == [n \in 1..Len(s) |-> LowerChar(s[n])]

\* SUPPORTED_EXTS (line 45).
SUPPORTED_EXTS == {<<".", "p", "n", "g">>, <<".", "j", "p", "g">>, <<".", "j", "p", "e", "g">>}

\* Path.exists() on a path of a file.
exists(fs, p) == p \in DOMAIN fs

\* in_path.with_name(f"{stem}{tag}{suffix}") and f"{stem}{tag}_{i}{suffix}".
Candidate(in_path, tag, i) ==
    [in_path EXCEPT !.stem = IF i = 0 THEN in_path.stem \o <<tag>>
                              ELSE in_path.stem \o <<tag, i>>]

\* suggest_output_name (lines 164-173): the first candidate that does not
\* exist.
RECURSIVE SuggestFrom(_, _, _, _)
SuggestFrom(fs, in_path, tag, i) ==
    IF exists(fs, Candidate(in_path, tag, i))
    THEN SuggestFrom(fs, in_path, tag, i + 1)
    ELSE Candidate(in_path, tag, i)

suggest_output_name(fs, in_path, mode) ==
    SuggestFrom(fs, in_path, IF mode = "enc" THEN "_enc" ELSE "_dec", 0)

\* The checks of run_job in the other order.
ValidateExistsFirst(j, fs) ==
    IF ~exists(fs, j.in_path) THEN "FileNotFoundError"
    ELSE IF Lower(j.in_path.suffix) \notin SUPPORTED_EXTS THEN "ValueError"
    ELSE "ok"

\* Lines 188-192: the extension, then the existence of the input.
Validate(j, fs) ==
    IF Lower(j.in_path.suffix) \notin SUPPORTED_EXTS THEN "ValueError"
    ELSE IF ~exists(fs, j.in_path) THEN "FileNotFoundError"
    ELSE "ok"

\* A decodable image file holding these pixel bytes.
ImageFile(pixels) == [kind |-> "image", pixels |-> pixels]

\* What a write that failed after the file was opened leaves behind.
TruncatedFile == [kind |-> "truncated", pixels |-> <<>>]

\* fs with `content` at path p, created or replaced.
WriteFile(fs, p, content) ==
    [q \in DOMAIN fs \cup {p} |-> IF q = p THEN content ELSE fs[q]]

\* The output written over the input path instead of the output path.
SaveOverInput(fs, j, content) == WriteFile(fs, j.in_path, content)

\* out_img.save(out_path, ...) (line 161) when it succeeds.
SaveOutput(fs, j, content) == WriteFile(fs, j.out_path, content)

\* out_path.parent.mkdir(parents=True, exist_ok=True) (line 209): the
\* directory and every directory above it.
MkdirParents(ds, dir) == ds \cup {SubSeq(dir, 1, n) : n \in 0..Len(dir)}

\* ------------------------------------------------------------------- state

VARIABLES
    \* derive_keystream, one call at a time (SpecKS)
    ks_pc,        \* "idle" | "loop"
    key,          \* the call's key
    length,       \* the call's length
    state,        \* the LCG state, local to the call
    out,          \* the bytearray being filled
    idx,          \* the loop variable i: bytes written so far
    ks_calls,     \* the completed calls, in order: [key, length, out]
    \* the block loop of run_job and its progress_bar generator
    job,          \* the Job: [mode, in_path, out_path, key]
    raw,          \* the decoded pixel bytes
    block,        \* the block size
    transformed,  \* the output bytearray
    total_blocks, \* total_blocks of line 201
    pb_pc,        \* "none" | "gen" | "body" | "resume" | "done"
    next_item,    \* how many items of range(total_blocks) were taken
    start,        \* the item the generator yielded last
    done,         \* progress_bar's counter
    draws,        \* every call of draw(): [done, total, written]
    shown,        \* the progress lines draw() wrote: <<done, total>>
    ranges,       \* the (s, e) of every block processed, in order
    writes,       \* per output index, how often the loop wrote it
    pass,         \* 1: first application, 2: applied again to its output
    orig,         \* the buffer the first application started from
    \* the file system and run_job (SpecJob)
    files,        \* the files that exist: path -> content
    dirs,         \* the directories that exist
    job_pc,       \* "build" | "ready" | "load" | "transform" | "done" |
                  \* "failed" | "exit" | "no_job"
    raised,       \* the exception run_job ended with, or "none"
    files0,       \* files when run_job was called
    dirs0,        \* dirs when run_job was called
    decode_calls  \* calls of load_image_bytes

ksVars == <<ks_pc, key, length, state, out, idx, ks_calls>>

loopVars == <<raw, block, transformed, total_blocks, pb_pc, next_item, start,
              done, draws, shown, ranges, writes>>

pipeVars == <<job, loopVars, pass, orig>>

jobVars == <<files, dirs, job_pc, raised, files0, dirs0, decode_calls>>

vars == <<ksVars, pipeVars, jobVars>>

\* ------------------------------------------------- SpecKS: derive_keystream

Key0 == MkKey(0, 0, 0)
Key42 == MkKey(0, 0, 42)
KeyMax == MkKey(0, 32767, 65535)      \* 2^31 - 1
KeyA5 == MkKey(0, 42405, 42405)       \* 0xA5A5A5A5
Key2p32 == MkKey(1, 0, 0)             \* 2^32

KsKeys == {Key0, Key42, KeyA5, Key2p32}

KsInit ==
    /\ ks_pc = "idle"
    /\ key = Key0
    /\ length = 0
    /\ state = Word(0, 0)
    /\ out = <<>>
    /\ idx = 0
    /\ ks_calls = <<>>

\* No call of derive_keystream is being stepped.
KsIdle == KsInit

\* The LCG state kept between calls: only the first call seeds it.
KsCallStale ==
    /\ ks_pc = "idle"
    /\ Len(ks_calls) < KsMaxCalls
    /\ \E k \in KsKeys, n \in 0..KsMaxLen :
        /\ key' = k
        /\ length' = n
        /\ state' = IF ks_calls = <<>> THEN Seed(k) ELSE state
        /\ out' = ZeroBytes(n)
    /\ idx' = 0
    /\ ks_pc' = "loop"
    /\ UNCHANGED ks_calls
    /\ UNCHANGED <<pipeVars, jobVars>>

\* Lines 113-114: entering the function seeds the state and allocates out.
KsCall ==
    /\ ks_pc = "idle"
    /\ Len(ks_calls) < KsMaxCalls
    /\ \E k \in KsKeys, n \in 0..KsMaxLen :
        /\ key' = k
        /\ length' = n
        /\ state' = Seed(k)
        /\ out' = ZeroBytes(n)
    /\ idx' = 0
    /\ ks_pc' = "loop"
    /\ UNCHANGED ks_calls
    /\ UNCHANGED <<pipeVars, jobVars>>

\* Lines 115-117: one iteration of the loop.
KsStep ==
    /\ ks_pc = "loop"
    /\ idx < length
    /\ state' = LcgNext(state)
    /\ out' = [out EXCEPT ![idx + 1] = OutByte(state')]
    /\ idx' = idx + 1
    /\ UNCHANGED <<ks_pc, key, length, ks_calls>>
    /\ UNCHANGED <<pipeVars, jobVars>>

\* Line 118: return bytes(out).
KsReturn ==
    /\ ks_pc = "loop"
    /\ idx = length
    /\ ks_calls' = Append(ks_calls, [key |-> key, length |-> length, out |-> out])
    /\ ks_pc' = "idle"
    /\ UNCHANGED <<key, length, state, out, idx>>
    /\ UNCHANGED <<pipeVars, jobVars>>

\* --------------------------------------- derive_keystream's properties

\* The LCG once more, on four 8-bit limbs: the schoolbook product of the
\* bytes of a and of w, the bytes of c added, the carries passed upwards and
\* the carry out of the top byte dropped.
ByteOf(x, n) == (x \div 256^n) % 256

RefStep(w) ==
    LET w0 == w.lo % 256
        w1 == w.lo \div 256
        w2 == w.hi % 256
        w3 == w.hi \div 256
        a0 == ByteOf(LcgA, 0)
        a1 == ByteOf(LcgA, 1)
        a2 == ByteOf(LcgA, 2)
        a3 == ByteOf(LcgA, 3)
        r0 == a0 * w0 + ByteOf(LcgC, 0)
        r1 == a0 * w1 + a1 * w0 + ByteOf(LcgC, 1) + (r0 \div 256)
        r2 == a0 * w2 + a1 * w1 + a2 * w0 + ByteOf(LcgC, 2) + (r1 \div 256)
        r3 == a0 * w3 + a1 * w2 + a2 * w1 + a3 * w0 + ByteOf(LcgC, 3) + (r2 \div 256)
    IN  Word((r3 % 256) * 256 + (r2 % 256), (r1 % 256) * 256 + (r0 % 256))

RECURSIVE RefIter(_, _)
RefIter(w, n) == IF n = 0 THEN w ELSE RefIter(RefStep(w), n - 1)

\* key mod 2^32, or 0xA5A5A5A5 when that is 0.
RefSeed(k) == IF k.hi = 0 /\ k.lo = 0 THEN Word(42405, 42405) ELSE Word(k.hi, k.lo)

\* Bits 16..23 of the state after n steps from key k.
RefByte(k, n) == RefIter(RefSeed(k), n).hi % 256

\* C3: derive_keystream(k, n) is the first n bytes of derive_keystream(k, m)
\* for n <= m, and two calls with the same (k, n) return the same bytes
\* whatever calls were made in between.
C3_PrefixDeterministic ==
    \A a, b \in 1..Len(ks_calls) :
        (ks_calls[a].key = ks_calls[b].key /\ ks_calls[a].length <= ks_calls[b].length)
            => ks_calls[a].out = SubSeq(ks_calls[b].out, 1, ks_calls[a].length)

\* A call, a call with another key, then the first key again with a
\* different length.
C3_Witness ==
    /\ Len(ks_calls) = 3
    /\ ks_calls[1].key = ks_calls[3].key
    /\ ks_calls[2].key # ks_calls[1].key
    /\ ks_calls[2].length > 0
    /\ ks_calls[1].length = 2
    /\ ks_calls[3].length = 1

\* C8: derive_keystream(key, length) returns exactly `length` bytes, byte i
\* being bits 16..23 of the state after i+1 steps of the LCG from
\* key mod 2^32, or from 0xA5A5A5A5 when that is 0; every state stays in
\* 0..2^32-1; key 0 and key 0xA5A5A5A5 give the same bytes; length 0 gives
\* the empty sequence. derive_keystream(0, 4) is 245, 73, 187, 65.
C8_Lcg ==
    /\ state.hi \in 0..(Limb - 1)
    /\ state.lo \in 0..(Limb - 1)
    /\ ks_pc = "loop" =>
        /\ state = RefIter(RefSeed(key), idx)
        /\ Len(out) = length
        /\ \A j \in 1..length : out[j] = (IF j <= idx THEN RefByte(key, j) ELSE 0)
    /\ \A n \in 1..Len(ks_calls) :
        /\ Len(ks_calls[n].out) = ks_calls[n].length
        /\ ks_calls[n].length = 0 => ks_calls[n].out = <<>>
        /\ \A j \in 1..ks_calls[n].length :
            ks_calls[n].out[j] = RefByte(ks_calls[n].key, j)
        /\ ks_calls[n].out = derive_keystream(ks_calls[n].key, ks_calls[n].length)
    /\ \A a, b \in 1..Len(ks_calls) :
        (ks_calls[a].key = Key0 /\ ks_calls[b].key = KeyA5
         /\ ks_calls[a].length = ks_calls[b].length)
            => ks_calls[a].out = ks_calls[b].out
    /\ derive_keystream(Key0, 4) = <<245, 73, 187, 65>>
    /\ derive_keystream(Key0, 4) = derive_keystream(KeyA5, 4)

\* Key 0, key 0xA5A5A5A5 and a key above 2^32 were each asked for bytes.
C8_Witness ==
    /\ Len(ks_calls) = 3
    /\ ks_calls[1].key = Key0
    /\ ks_calls[2].key = KeyA5
    /\ ks_calls[3].key = Key2p32
    /\ \A n \in 1..3 : ks_calls[n].length = 2
    /\ ks_calls[1].out = ks_calls[2].out

\* ------------------------------------------ the block loop and progress_bar

\* No file system is in play and run_job's envelope is not being stepped.
JobIdle ==
    /\ files = <<>>
    /\ dirs = {}
    /\ job_pc = "none"
    /\ raised = "none"
    /\ files0 = <<>>
    /\ dirs0 = {}
    /\ decode_calls = 0

\* The loop not started: the values the variables hold before line 199.
LoopIdle ==
    /\ raw = <<>>
    /\ block = 1
    /\ transformed = <<>>
    /\ total_blocks = 0
    /\ pb_pc = "none"
    /\ next_item = 0
    /\ start = 0
    /\ done = 0
    /\ draws = <<>>
    /\ shown = <<>>
    /\ ranges = <<>>
    /\ writes = <<>>

\* Lines 199-203 up to the first next(): transformed = bytearray(len(raw)),
\* total_blocks, and progress_bar's done = 0, last_draw = 0.0.
EnterLoop(buf, blk) ==
    /\ raw' = buf
    /\ block' = blk
    /\ transformed' = ZeroBytes(Len(buf))
    /\ total_blocks' = TotalBlocks(Len(buf), blk)
    /\ pb_pc' = "gen"
    /\ next_item' = 0
    /\ start' = 0
    /\ done' = 0
    /\ draws' = <<>>
    /\ shown' = <<>>
    /\ ranges' = <<>>
    /\ writes' = ZeroBytes(Len(buf))

\* draw() (lines 78-93) called with the counter at d: a redraw less than
\* 0.03 s after the last written line is skipped unless d = total. last_draw
\* starts at 0.0, so the first call is never throttled; after that the clock
\* decides.
Draw(d) ==
    /\ draws' = Append(draws,
                 [done |-> d, total |-> total_blocks, written |-> Len(ranges)])
    /\ \E recent \in BOOLEAN :
        /\ recent => shown # <<>>
        /\ shown' = IF recent /\ d # total_blocks
                    THEN shown
                    ELSE Append(shown, <<d, total_blocks>>)

\* Lines 95-96: the generator takes the next item of range(total_blocks) and
\* yields it to the for loop of line 203.
PbYield ==
    /\ pb_pc = "gen"
    /\ next_item < total_blocks
    /\ start' = next_item
    /\ next_item' = next_item + 1
    /\ pb_pc' = "body"
    /\ UNCHANGED <<raw, block, transformed, total_blocks, done, draws, shown,
                   ranges, writes>>
    /\ UNCHANGED <<ksVars, job, pass, orig, jobVars>>

\* The keystream as one stream over the whole buffer: the block at offset s
\* takes bytes s .. e-1 of derive_keystream(key, e).
LoopBodyOffsetAware ==
    /\ pb_pc = "body"
    /\ LET s == BlockStart(start, block)
           e == BlockEnd(start, block, Len(raw))
           data == Slice(raw, s, e)
           ks == Slice(derive_keystream(job.key, e), s, e)
           new == [j \in 1..Len(data) |-> BitXor(data[j], ks[j])]
       IN  /\ transformed' = SliceAssign(transformed, s, e, new)
           /\ ranges' = Append(ranges, <<s, e>>)
           /\ writes' = [j \in DOMAIN writes |->
                           IF s < j /\ j <= e THEN writes[j] + 1 ELSE writes[j]]
    /\ pb_pc' = "resume"
    /\ UNCHANGED <<raw, block, total_blocks, next_item, start, done, draws, shown>>
    /\ UNCHANGED <<ksVars, job, pass, orig, jobVars>>

\* Lines 204-206: the loop body for the yielded item.
LoopBody ==
    /\ pb_pc = "body"
    /\ LET s == BlockStart(start, block)
           e == BlockEnd(start, block, Len(raw))
       IN  /\ transformed' =
                 SliceAssign(transformed, s, e, xor_bytes(Slice(raw, s, e), job.key))
           /\ ranges' = Append(ranges, <<s, e>>)
           /\ writes' = [j \in DOMAIN writes |->
                           IF s < j /\ j <= e THEN writes[j] + 1 ELSE writes[j]]
    /\ pb_pc' = "resume"
    /\ UNCHANGED <<raw, block, total_blocks, next_item, start, done, draws, shown>>
    /\ UNCHANGED <<ksVars, job, pass, orig, jobVars>>

\* draw() before done += 1: the count reported is one behind.
PbResumeStale ==
    /\ pb_pc = "resume"
    /\ done' = done + 1
    /\ Draw(done)
    /\ pb_pc' = "gen"
    /\ UNCHANGED <<raw, block, transformed, total_blocks, next_item, start,
                   ranges, writes>>
    /\ UNCHANGED <<ksVars, job, pass, orig, jobVars>>

\* Lines 97-98: the for loop asks for the next item, the generator resumes
\* after its yield: done += 1; draw().
PbResume ==
    /\ pb_pc = "resume"
    /\ done' = done + 1
    /\ Draw(done')
    /\ pb_pc' = "gen"
    /\ UNCHANGED <<raw, block, transformed, total_blocks, next_item, start,
                   ranges, writes>>
    /\ UNCHANGED <<ksVars, job, pass, orig, jobVars>>

\* Lines 99-101: range(total_blocks) is exhausted; if done == total: draw();
\* the generator ends and with it the for loop.
PbFinish ==
    /\ pb_pc = "gen"
    /\ next_item = total_blocks
    /\ IF done = total_blocks THEN Draw(done) ELSE UNCHANGED <<draws, shown>>
    /\ pb_pc' = "done"
    /\ UNCHANGED <<raw, block, transformed, total_blocks, next_item, start, done,
                   ranges, writes>>
    /\ UNCHANGED <<ksVars, job, pass, orig, jobVars>>

LoopNext == PbYield \/ LoopBody \/ PbResume \/ PbFinish

\* ------------------------------------------------ SpecPipe: the loop, twice

PipeBytes == {0, 165}

RECURSIVE SeqsUpTo(_, _)
SeqsUpTo(S, n) ==
    IF n = 0 THEN {<<>>}
    ELSE LET shorter == SeqsUpTo(S, n - 1)
         IN  shorter \cup {Append(q, x) : q \in {r \in shorter : Len(r) = n - 1}, x \in S}

PipeKeys == {Key0, Key42, KeyMax}

\* The loop is entered on a buffer, a key and a block size.
PipeInit ==
    /\ KsIdle
    /\ \E buf \in SeqsUpTo(PipeBytes, PipeMaxLen), k \in PipeKeys, blk \in 1..PipeMaxBlock :
        /\ job = [mode |-> "enc", in_path |-> NoPath, out_path |-> NoPath, key |-> k]
        /\ raw = buf
        /\ block = blk
        /\ transformed = ZeroBytes(Len(buf))
        /\ total_blocks = TotalBlocks(Len(buf), blk)
        /\ writes = ZeroBytes(Len(buf))
        /\ orig = buf
    /\ pb_pc = "gen"
    /\ next_item = 0
    /\ start = 0
    /\ done = 0
    /\ draws = <<>>
    /\ shown = <<>>
    /\ ranges = <<>>
    /\ pass = 1
    /\ JobIdle

\* The loop is run again, with the same key and block size, on the buffer
\* it produced: what decrypting the encrypted pixels does.
SecondPass ==
    /\ pb_pc = "done"
    /\ pass = 1
    /\ EnterLoop(transformed, block)
    /\ pass' = 2
    /\ UNCHANGED <<ksVars, job, orig, jobVars>>

PipeNext == LoopNext \/ SecondPass

SpecPipe == PipeInit /\ [][PipeNext]_vars

\* ------------------------------------------------- the loop's properties

\* t is ceil(n / blk), said without the code's formula.
IsCeilDiv(t, n, blk) == t * blk >= n /\ (t = 0 \/ (t - 1) * blk < n)

\* The keystream byte the restarted stream gives output index j (from 1).
RestartedKs(j) == derive_keystream(job.key, block)[((j - 1) % block) + 1]

\* C1: when the block loop has ended, the buffer it produced is
\* byte-identical to xor_bytes applied to the whole buffer in one call, for
\* every buffer, key and block size (also a block shorter than the buffer).
C1_ChunkingTransparent ==
    pb_pc = "done" => transformed = xor_bytes(raw, job.key)

\* C2: applying the block loop twice with the same key and the same block
\* size gives back the buffer it started from, and xor_bytes applied twice
\* with one key gives back its argument.
C2_Involution ==
    /\ (pass = 2 /\ pb_pc = "done") => transformed = orig
    /\ xor_bytes(xor_bytes(raw, job.key), job.key) = raw

\* Both applications ended on a buffer of several blocks that the first
\* application changed.
C2_Witness ==
    /\ pass = 2
    /\ pb_pc = "done"
    /\ total_blocks >= 2
    /\ raw # orig
    /\ transformed = orig

\* C4 as stated: draw() is called once per completed block and never
\* otherwise, with done = 1, 2, ..., total in strictly increasing order and
\* total = ceil(L / s), after the block's bytes were written.
C4_OncePerBlock ==
    /\ IsCeilDiv(total_blocks, Len(raw), block)
    /\ Len(draws) <= total_blocks
    /\ \A n \in 1..Len(draws) :
        /\ draws[n].done = n
        /\ draws[n].total = total_blocks
        /\ draws[n].written >= n
    /\ pb_pc = "done" => Len(draws) = total_blocks

\* C4 amended: draw() is called once after each completed block, with
\* done = 1, 2, ..., total in strictly increasing order, and exactly once
\* more when the loop has ended, with done = total again (the only call when
\* L = 0, with (0, 0)). total = ceil(L / s), done never exceeds total, the
\* call for block i comes after block i's bytes were written, and the last
\* call has done = total. The lines written are a throttled selection of the
\* calls, in order, that ends with done = total.
C4_ProgressCalls ==
    /\ IsCeilDiv(total_blocks, Len(raw), block)
    /\ Len(draws) = done + (IF pb_pc = "done" THEN 1 ELSE 0)
    /\ done <= total_blocks
    /\ \A n \in 1..Len(draws) :
        /\ draws[n].done = Min(n, total_blocks)
        /\ draws[n].total = total_blocks
        /\ draws[n].written >= draws[n].done
    /\ pb_pc = "done" =>
        /\ Len(draws) = total_blocks + 1
        /\ draws[Len(draws)].done = total_blocks
        /\ shown # <<>>
        /\ shown[Len(shown)] = <<total_blocks, total_blocks>>
    /\ Len(shown) <= Len(draws)
    /\ \A n \in 1..Len(shown) :
        /\ shown[n][2] = total_blocks
        /\ shown[n][1] <= total_blocks
        /\ n > 1 => shown[n - 1][1] <= shown[n][1]

\* A loop of three blocks has ended and one of its draw() calls was
\* throttled.
C4_Witness ==
    /\ pb_pc = "done"
    /\ total_blocks = 3
    /\ Len(draws) = 4
    /\ Len(shown) < Len(draws)

\* C9: the blocks are processed in ascending index order over the ranges
\* [i*s, min((i+1)*s, L)), i = 0..ceil(L/s)-1; every range is non-empty,
\* every output index is written exactly once, none twice, and the output
\* buffer has length L after every step. 70000 bytes in blocks of 32768 are
\* 3 blocks of 32768, 32768 and 4464 bytes; an empty buffer has no block.
C9_BlockRanges ==
    LET L == Len(raw)
        covered == IF ranges = <<>> THEN 0 ELSE ranges[Len(ranges)][2]
    IN  /\ Len(transformed) = L
        /\ IsCeilDiv(total_blocks, L, block)
        /\ Len(ranges) <= total_blocks
        /\ \A n \in 1..Len(ranges) :
            /\ ranges[n] = <<(n - 1) * block, Min(n * block, L)>>
            /\ ranges[n][1] < ranges[n][2]
        /\ \A j \in 1..L : writes[j] = (IF j <= covered THEN 1 ELSE 0)
        /\ pb_pc = "done" =>
            /\ Len(ranges) = total_blocks
            /\ covered = L
        /\ TotalBlocks(70000, BLOCK) = 3
        /\ [n \in 1..3 |-> BlockEnd(n - 1, BLOCK, 70000) - BlockStart(n - 1, BLOCK)]
             = <<32768, 32768, 4464>>
        /\ TotalBlocks(0, BLOCK) = 0

\* A loop of three blocks, the last one shorter, has ended.
C9_Witness ==
    /\ pb_pc = "done"
    /\ Len(ranges) = 3
    /\ ranges[3][2] - ranges[3][1] < block
    /\ \A j \in 1..Len(raw) : writes[j] = 1

\* C10: the keystream restarts at every block: every output byte written so
\* far is raw[j] XOR derive_keystream(key, s)[j mod s], so two bytes whose
\* offsets differ by a multiple of s meet the same keystream byte.
C10_RestartedKeystream ==
    \A j \in 1..Len(raw) :
        transformed[j] = IF writes[j] > 0 THEN BitXor(raw[j], RestartedKs(j)) ELSE 0

\* A loop over more than one block has ended, and its output differs from
\* the one-call xor_bytes of the buffer.
C10_Witness ==
    /\ pb_pc = "done"
    /\ Len(raw) > block
    /\ transformed # xor_bytes(raw, job.key)
    /\ \A j \in 1..(Len(raw) - block) :
        BitXor(transformed[j], raw[j]) = BitXor(transformed[j + block], raw[j + block])

\* ------------------------------------------- SpecJob: building the Job

Png == <<".", "p", "n", "g">>

PathA == Path(<<>>, <<"a">>, Png)                        \* a.png
PathGif == Path(<<>>, <<"a">>, <<".", "g", "i", "f">>)   \* a.gif
PathUpper == Path(<<>>, <<"b">>, <<".", "P", "N", "G">>) \* b.PNG
PathOut == Path(<<>>, <<"o">>, Png)                      \* o.png
PathNewDir == Path(<<"new">>, <<"o">>, Png)              \* new/o.png
PathEnc == Path(<<>>, <<"a", "_enc">>, Png)              \* a_enc.png

\* The files that may exist at the start, each with its pixel bytes.
StartPixels ==
    [q \in {PathA, PathGif, PathUpper, PathOut, PathEnc} |->
        IF q = PathOut THEN <<9>> ELSE <<0, 165, 7>>]

ArgInPaths == {PathA, PathGif, PathUpper}
ArgOutPaths == {PathA, PathOut, PathNewDir}
JobKeys == {Key0, Key42}

JobInit ==
    /\ KsIdle
    /\ LoopIdle
    /\ job = [mode |-> "enc", in_path |-> NoPath, out_path |-> NoPath, key |-> Key0]
    /\ pass = 1
    /\ orig = <<>>
    /\ \E present \in SUBSET DOMAIN StartPixels :
        files = [q \in present |-> ImageFile(StartPixels[q])]
    /\ dirs = {<<>>}
    /\ job_pc = "build"
    /\ raised = "none"
    /\ files0 = <<>>
    /\ dirs0 = {}
    /\ decode_calls = 0

\* In both builders `answer` is what confirm() (lines 56-69) returns; it is
\* asked only when the output path exists.
\* from_args (lines 279-293): None when a required flag is missing; the
\* output is --out or the suggested name; an existing output is overwritten
\* only when the user confirms, and the program exits otherwise.
from_args ==
    /\ job_pc = "build"
    /\ \E m \in {"enc", "dec", "None"}, inp \in ArgInPaths,
          outp \in ArgOutPaths \cup {NoPath}, k \in JobKeys, answer \in BOOLEAN :
        LET out_path == IF outp = NoPath
                        THEN suggest_output_name(files, inp, m)
                        ELSE outp
        IN  IF m = "None"
            THEN job_pc' = "no_job" /\ UNCHANGED job
            ELSE IF exists(files, out_path) /\ ~answer
            THEN job_pc' = "exit" /\ UNCHANGED job
            ELSE /\ job' = [mode |-> m, in_path |-> inp, out_path |-> out_path, key |-> k]
                 /\ job_pc' = "ready"
    /\ UNCHANGED <<ksVars, loopVars, pass, orig>>
    /\ UNCHANGED <<files, dirs, raised, files0, dirs0, decode_calls>>

\* interactive_flow (lines 229-276): choice 3 exits; the input path is asked
\* for until it exists with a supported extension; the output is the typed
\* name, taken relative to the input's directory, or the suggested name; an
\* existing output that the user does not confirm is replaced by the
\* suggested name.
interactive_flow ==
    /\ job_pc = "build"
    /\ \E choice \in {"1", "2", "3"}, k \in JobKeys,
          outp \in ArgOutPaths \cup {NoPath}, answer \in BOOLEAN :
        IF choice = "3"
        THEN job_pc' = "exit" /\ UNCHANGED job
        ELSE \E inp \in {q \in ArgInPaths :
                            exists(files, q) /\ Lower(q.suffix) \in SUPPORTED_EXTS} :
            LET m == IF choice = "1" THEN "enc" ELSE "dec"
                suggested == suggest_output_name(files, inp, m)
                typed == IF outp = NoPath THEN suggested
                         ELSE [outp EXCEPT !.dir = inp.dir \o outp.dir]
                out_path == IF exists(files, typed) /\ ~answer
                            THEN suggest_output_name(files, inp, m)
                            ELSE typed
            IN  /\ job' = [mode |-> m, in_path |-> inp, out_path |-> out_path, key |-> k]
                /\ job_pc' = "ready"
    /\ UNCHANGED <<ksVars, loopVars, pass, orig>>
    /\ UNCHANGED <<files, dirs, raised, files0, dirs0, decode_calls>>

\* -------------------------------------------------------- SpecJob: run_job

\* Lines 188-192: run_job is called; the extension and the existence of the
\* input are checked before anything else.
RjValidate ==
    /\ job_pc = "ready"
    /\ files0' = files
    /\ dirs0' = dirs
    /\ LET v == Validate(job, files)
       IN  IF v = "ok"
           THEN job_pc' = "load" /\ UNCHANGED raised
           ELSE job_pc' = "failed" /\ raised' = v
    /\ UNCHANGED <<ksVars, job, loopVars, pass, orig>>
    /\ UNCHANGED <<files, dirs, decode_calls>>

\* Lines 195-203: load_image_bytes decodes the input, or the codec raises
\* and the exception leaves run_job, which has no handler; then the output
\* buffer and the progress generator are set up.
RjLoad ==
    /\ job_pc = "load"
    /\ decode_calls' = decode_calls + 1
    /\ \E decoded \in BOOLEAN :
        IF decoded /\ files[job.in_path].kind = "image"
        THEN /\ EnterLoop(files[job.in_path].pixels, JobBlock)
             /\ job_pc' = "transform"
             /\ UNCHANGED raised
        ELSE /\ job_pc' = "failed"
             /\ raised' = "CodecError"
             /\ UNCHANGED loopVars
    /\ UNCHANGED <<ksVars, job, pass, orig>>
    /\ UNCHANGED <<files, dirs, files0, dirs0>>

\* Lines 209-212: the output's directory is created and save_image_bytes
\* hands the bytes to the codec, which writes straight to out_path (line
\* 161): no temporary file, no handler, no cleanup. The codec may raise
\* before it opens the file, which then is as it was, or after it opened it
\* for writing: a file that existed is then left truncated. (A file the
\* codec itself created is taken to be removed again by it.)
RjSave ==
    /\ job_pc = "transform"
    /\ pb_pc = "done"
    /\ dirs' = MkdirParents(dirs, job.out_path.dir)
    /\ \E outcome \in {"saved", "raised_before_open", "raised_after_open"} :
        CASE outcome = "saved" ->
                /\ files' = SaveOutput(files, job, ImageFile(transformed))
                /\ job_pc' = "done"
                /\ UNCHANGED raised
          [] outcome = "raised_before_open" ->
                /\ job_pc' = "failed"
                /\ raised' = "CodecError"
                /\ UNCHANGED files
          [] outcome = "raised_after_open" ->
                /\ files' = IF exists(files, job.out_path)
                            THEN WriteFile(files, job.out_path, TruncatedFile)
                            ELSE files
                /\ job_pc' = "failed"
                /\ raised' = "CodecError"
    /\ UNCHANGED <<ksVars, job, loopVars, pass, orig>>
    /\ UNCHANGED <<files0, dirs0, decode_calls>>

JobNext ==
    \/ from_args
    \/ interactive_flow
    \/ RjValidate
    \/ RjLoad
    \/ LoopNext
    \/ RjSave

SpecJob == JobInit /\ [][JobNext]_vars

\* ------------------------------------------------- run_job's properties

UpperChar(c) ==
    CASE c = "p" -> "P"
      [] c = "n" -> "N"
      [] c = "g" -> "G"
      [] c = "j" -> "J"
      [] c = "e" -> "E"
      [] OTHER -> c

\* s is .png, .jpg or .jpeg in some mix of upper and lower case.
IsSupportedSuffix(s) ==
    \E e \in {<<".", "p", "n", "g">>, <<".", "j", "p", "g">>, <<".", "j", "p", "e", "g">>} :
        /\ Len(s) = Len(e)
        /\ \A n \in 1..Len(e) : s[n] \in {e[n], UpperChar(e[n])}

\* run_job was called and its checks were made.
Validated == job_pc \in {"load", "transform", "done", "failed"}

\* Nothing was decoded, created or written since run_job was called.
Untouched ==
    /\ files = files0
    /\ dirs = dirs0
    /\ decode_calls = 0
    /\ pb_pc = "none"

\* The content of path p in fs, with a value of its own for no file.
ContentOf(fs, p) ==
    IF p \in DOMAIN fs THEN fs[p] ELSE [kind |-> "absent", pixels |-> <<>>]

\* What run_job changed in the file system: the paths whose content, or
\* existence, is not what it was at the call.
ChangedPaths == {q \in DOMAIN files \cup DOMAIN files0 :
                    ContentOf(files, q) # ContentOf(files0, q)}

\* C5: an input whose extension is not .png/.jpg/.jpeg (in any case) makes
\* run_job fail with the unsupported-format error, also when the file is
\* missing; a supported extension on a missing file makes it fail with the
\* not-found error; both before any decode, mkdir or write. No other input
\* raises either error.
C5_ValidationFirst ==
    Validated =>
        /\ ~IsSupportedSuffix(job.in_path.suffix) =>
            job_pc = "failed" /\ raised = "ValueError" /\ Untouched
        /\ (IsSupportedSuffix(job.in_path.suffix) /\ job.in_path \notin DOMAIN files0) =>
            job_pc = "failed" /\ raised = "FileNotFoundError" /\ Untouched
        /\ (IsSupportedSuffix(job.in_path.suffix) /\ job.in_path \in DOMAIN files0) =>
            raised \notin {"ValueError", "FileNotFoundError"}

\* run_job failed on a missing file with an unsupported extension: the
\* extension is what it reports.
C5_Witness ==
    /\ job_pc = "failed"
    /\ raised = "ValueError"
    /\ job.in_path = PathGif
    /\ PathGif \notin DOMAIN files0
    /\ Untouched

\* C6 as stated: a successful run_job writes exactly one artifact, at
\* job.out_path, and leaves the content of the input artifact unchanged,
\* for every Job from_args or interactive_flow can build.
C6_InputNeverMutated ==
    job_pc = "done" =>
        /\ ContentOf(files, job.out_path) = ImageFile(transformed)
        /\ ChangedPaths \subseteq {job.out_path}
        /\ ContentOf(files, job.in_path) = ContentOf(files0, job.in_path)

\* C6 amended: a successful run_job writes exactly one artifact, at
\* job.out_path, and changes no other file; the input artifact keeps its
\* content unless job.out_path is the input path itself, which from_args and
\* interactive_flow allow once the overwrite is confirmed: then the input is
\* replaced by the output.
C6_OneArtifact ==
    job_pc = "done" =>
        /\ ContentOf(files, job.out_path) = ImageFile(transformed)
        /\ ChangedPaths \subseteq {job.out_path}
        /\ job.out_path # job.in_path =>
            ContentOf(files, job.in_path) = ContentOf(files0, job.in_path)
        /\ job.out_path = job.in_path =>
            /\ job.in_path \in DOMAIN files0
            /\ ContentOf(files, job.in_path) = ImageFile(transformed)

\* run_job succeeded on an output path that existed, is not the input and
\* was overwritten.
C6_Witness ==
    /\ job_pc = "done"
    /\ job.out_path # job.in_path
    /\ job.out_path \in DOMAIN files0
    /\ ChangedPaths = {job.out_path}
    /\ files[job.in_path] = files0[job.in_path]

\* C7: when the codec fails in decode or encode, run_job ends with the
\* codec's error and the output location holds what it held before the
\* call.
C7_NoPartialOutput ==
    (job_pc = "failed" /\ raised = "CodecError") =>
        ContentOf(files, job.out_path) = ContentOf(files0, job.out_path)

\* ---------------------------------------------------------- specifications

KsNext == KsCall \/ KsStep \/ KsReturn

PipeIdle ==
    /\ LoopIdle
    /\ job = [mode |-> "enc", in_path |-> NoPath, out_path |-> NoPath, key |-> Key0]
    /\ pass = 1
    /\ orig = <<>>

KsSpecInit == KsInit /\ PipeIdle /\ JobIdle

SpecKS == KsSpecInit /\ [][KsNext]_vars

====
